---- MODULE Spec2Model ----
(***************************************************************************)
(* A model of tk_json_downloader.py: the URL and file-name helpers, the    *)
(* catalog normalizer, the two QThread workers and the MainWindow handlers *)
(* that start them and receive their signals.                              *)
(*                                                                         *)
(* A Python str is a sequence of one-character strings; a JSON value is a  *)
(* record tagged by its Python type (field t) with its payload in field v. *)
(***************************************************************************)
EXTENDS Integers, Sequences, FiniteSets, TLC

(***************************************************************************)
(* Bounds of the model.                                                    *)
(***************************************************************************)
\* longest generated free string (file names, URL tails)
MaxLen == 3
\* most workers of one kind ever started in a run of the window
MaxWorkers == 3
\* most entries handed to one DownloadWorker
MaxItems == 2

(***************************************************************************)
(* Characters.                                                             *)
(***************************************************************************)
UpperSeq == <<"A","B","C","D","E","F","G","H","I","J","K","L","M",
              "N","O","P","Q","R","S","T","U","V","W","X","Y","Z">>
LowerSeq == <<"a","b","c","d","e","f","g","h","i","j","k","l","m",
              "n","o","p","q","r","s","t","u","v","w","x","y","z">>
DigitSeq == <<"0","1","2","3","4","5","6","7","8","9">>

Range(s) == {s[i] : i \in DOMAIN s}

IsAlpha(c) == c \in Range(UpperSeq) \cup Range(LowerSeq)

\* regex \w on str patterns: letters, digits and the underscore
IsWord(c) == IsAlpha(c) \/ c \in Range(DigitSeq) \/ c = "_"

\* str.isspace / regex \s
IsSpace(c) == c \in {" ", "\t", "\n", "\r", "\f"}

\* urllib.parse.scheme_chars
IsSchemeChar(c) == IsAlpha(c) \/ c \in Range(DigitSeq) \/ c \in {"+", "-", "."}

LowerChar(c) ==
  IF c \in Range(UpperSeq)
    THEN LowerSeq[CHOOSE i \in DOMAIN UpperSeq : UpperSeq[i] = c]
    ELSE c

\* str.lower
Lower(s) == [i \in DOMAIN s |-> LowerChar(s[i])]

(***************************************************************************)
(* str methods.                                                            *)
(***************************************************************************)
RECURSIVE LStripSet(_, _)
LStripSet(s, cs) ==
  IF s # <<>> /\ Head(s) \in cs THEN LStripSet(Tail(s), cs) ELSE s

RECURSIVE RStripSet(_, _)
RStripSet(s, cs) ==
  IF s # <<>> /\ s[Len(s)] \in cs
    THEN RStripSet(SubSeq(s, 1, Len(s) - 1), cs)
    ELSE s

Whitespace == {" ", "\t", "\n", "\r", "\f"}

\* str.strip()
Strip(s) == RStripSet(LStripSet(s, Whitespace), Whitespace)

\* str.startswith
StartsWith(s, p) == Len(s) >= Len(p) /\ SubSeq(s, 1, Len(p)) = p

\* str.find(c): the first index of character c, 0 when absent
Find(s, c) ==
  IF \E i \in DOMAIN s : s[i] = c
    THEN CHOOSE i \in DOMAIN s : s[i] = c /\ \A j \in 1..(i - 1) : s[j] # c
    ELSE 0

\* str.split(c): the pieces between the occurrences of character c
RECURSIVE Split(_, _)
Split(s, c) ==
  LET i == Find(s, c) IN
    IF i = 0 THEN <<s>>
    ELSE <<SubSeq(s, 1, i - 1)>> \o Split(SubSeq(s, i + 1, Len(s)), c)

\* c.join(parts)
RECURSIVE Join(_, _)
Join(parts, c) ==
  IF parts = <<>> THEN <<>>
  ELSE IF Len(parts) = 1 THEN parts[1]
  ELSE parts[1] \o <<c>> \o Join(Tail(parts), c)


(***************************************************************************)
(* Helpers: URL + safe filenames                                           *)
(***************************************************************************)
HTTP == <<"h","t","t","p",":","/","/">>
HTTPS == <<"h","t","t","p","s",":","/","/">>

uses_relative == {<<>>, <<"f","t","p">>, <<"h","t","t","p">>,
                  <<"h","t","t","p","s">>, <<"f","i","l","e">>,
                  <<"w","s">>, <<"w","s","s">>}
uses_netloc == uses_relative \cup {<<"g","i","t">>}

\* urlsplit, after the scheme: the netloc runs from "//" to the next "/"
SplitNetloc(scheme, rest) ==
  IF ~StartsWith(rest, <<"/", "/">>)
    THEN [scheme |-> scheme, netloc |-> <<>>, path |-> rest]
  ELSE IF Find(SubSeq(rest, 3, Len(rest)), "/") = 0
    THEN [scheme |-> scheme, netloc |-> SubSeq(rest, 3, Len(rest)),
          path |-> <<>>]
  ELSE [scheme |-> scheme,
        netloc |-> SubSeq(rest, 3, Find(SubSeq(rest, 3, Len(rest)), "/") + 1),
        path |-> SubSeq(rest, Find(SubSeq(rest, 3, Len(rest)), "/") + 2,
                        Len(rest))]

\* urlsplit: i = url.find(':') ends a scheme when url[:i] is made of scheme
\* characters and starts with a letter
SplitScheme(url, i, scheme0) ==
  IF i > 1 /\ IsAlpha(url[1]) /\ \A k \in 1..(i - 1) : IsSchemeChar(url[k])
    THEN SplitNetloc(Lower(SubSeq(url, 1, i - 1)), SubSeq(url, i + 1, Len(url)))
    ELSE SplitNetloc(scheme0, url)

LeadingSpaceStripped(url) == LStripSet(url, {" "})

\* urllib.parse.urlsplit for URLs without "?", "#", ";", brackets and
\* control characters: [scheme, netloc, path]
urlsplit(url, scheme0) ==
  SplitScheme(LeadingSpaceStripped(url),
              Find(LeadingSpaceStripped(url), ":"), scheme0)

\* urllib.parse.urlunsplit, same restriction
urlunsplit(scheme, netloc, path) ==
  LET u1 == IF netloc # <<>> \/
               (scheme # <<>> /\ scheme \in uses_netloc
                  /\ ~StartsWith(path, <<"/", "/">>))
              THEN <<"/", "/">> \o netloc \o
                   (IF path # <<>> /\ Head(path) # "/" THEN <<"/">> ELSE <<>>)
                   \o path
              ELSE path
  IN IF scheme # <<>> THEN scheme \o <<":">> \o u1 ELSE u1

\* the loop of urljoin that resolves "." and ".." segments
RECURSIVE ResolveSegments(_, _)
ResolveSegments(segments, resolved) ==
  IF segments = <<>> THEN resolved
  ELSE LET seg == Head(segments) IN
    IF seg = <<".", ".">>
      THEN ResolveSegments(Tail(segments),
             IF resolved = <<>> THEN <<>>
             ELSE SubSeq(resolved, 1, Len(resolved) - 1))
    ELSE IF seg = <<".">>
      THEN ResolveSegments(Tail(segments), resolved)
    ELSE ResolveSegments(Tail(segments), Append(resolved, seg))

NonEmptySeg(x) == x # <<>>

\* segments[1:-1] = filter(None, segments[1:-1])
FilterMiddle(joined) ==
  IF Len(joined) <= 2 THEN joined
  ELSE <<joined[1]>>
       \o SelectSeq(SubSeq(joined, 2, Len(joined) - 1), NonEmptySeg)
       \o <<joined[Len(joined)]>>

\* base_parts: the base path's segments without a last one that is no directory
BaseParts(bp) ==
  IF bp[Len(bp)] # <<>> THEN SubSeq(bp, 1, Len(bp) - 1) ELSE bp

Segments(bpath, path) ==
  IF Head(path) = "/" THEN Split(path, "/")
  ELSE FilterMiddle(BaseParts(Split(bpath, "/")) \o Split(path, "/"))

ResolvedPath(segments) ==
  IF segments[Len(segments)] \in {<<".">>, <<".", ".">>}
    THEN Append(ResolveSegments(segments, <<>>), <<>>)
    ELSE ResolveSegments(segments, <<>>)

PathOrRoot(p) == IF p = <<>> THEN <<"/">> ELSE p

\* urljoin once base and url are parsed and share a relative scheme
JoinPaths(scheme, netloc, bpath, path) ==
  IF path = <<>> THEN urlunsplit(scheme, netloc, bpath)
  ELSE urlunsplit(scheme, netloc,
         PathOrRoot(Join(ResolvedPath(Segments(bpath, path)), "/")))

JoinParsed(b, u, url) ==
  IF u.scheme # b.scheme \/ u.scheme \notin uses_relative THEN url
  ELSE IF u.scheme \in uses_netloc /\ u.netloc # <<>>
    THEN urlunsplit(u.scheme, u.netloc, u.path)
  ELSE JoinPaths(u.scheme,
                 IF u.scheme \in uses_netloc THEN b.netloc ELSE u.netloc,
                 b.path, u.path)

JoinWithBase(b, url) == JoinParsed(b, urlsplit(url, b.scheme), url)

\* urllib.parse.urljoin(base, url)
urljoin(base, url) ==
  IF base = <<>> THEN url
  ELSE IF url = <<>> THEN base
  ELSE JoinWithBase(urlsplit(base, <<>>), url)

\* JoinStripped without its test for an absolute URL
JoinStripped_NoAbsoluteTest(base, p) ==
  urljoin(RStripSet(base, {"/"}) \o <<"/">>, LStripSet(p, {"/"}))

\* the rest of join_url once p = path_or_url.strip()
JoinStripped(base, p) ==
  IF StartsWith(p, HTTP) \/ StartsWith(p, HTTPS) THEN p
  ELSE urljoin(RStripSet(base, {"/"}) \o <<"/">>, LStripSet(p, {"/"}))

\* join_url(base, path_or_url)
join_url(base, path_or_url) ==
  IF path_or_url = <<>> THEN <<>>
  ELSE JoinStripped(base, Strip(path_or_url))

\* [^\w\-. ]
IsUnsafeChar(c) == ~(IsWord(c) \/ c \in {"-", ".", " "})

\* re.sub(r"[^\w\-. ]+", "_", s): every maximal run of unsafe characters
\* becomes one underscore
RECURSIVE SubUnsafe(_)
SubUnsafe(s) ==
  IF s = <<>> THEN <<>>
  ELSE IF IsUnsafeChar(Head(s))
    THEN IF Len(s) > 1 /\ IsUnsafeChar(s[2])
           THEN SubUnsafe(Tail(s))
           ELSE <<"_">> \o SubUnsafe(Tail(s))
    ELSE <<Head(s)>> \o SubUnsafe(Tail(s))

\* re.sub(r"\s+", " ", s): every maximal run of whitespace becomes one space
RECURSIVE SubSpaces(_)
SubSpaces(s) ==
  IF s = <<>> THEN <<>>
  ELSE IF IsSpace(Head(s))
    THEN IF Len(s) > 1 /\ IsSpace(s[2])
           THEN SubSpaces(Tail(s))
           ELSE <<" ">> \o SubSpaces(Tail(s))
    ELSE <<Head(s)>> \o SubSpaces(Tail(s))

FILE == <<"f","i","l","e">>

\* OrFile with the default title as the fallback
OrFile_Untitled(n) ==
  IF n = <<>> THEN <<"(","u","n","t","i","t","l","e","d",")">> ELSE n

\* name or "file"
OrFile(n) == IF n = <<>> THEN FILE ELSE n

\* safe_filename(name)
safe_filename(name) ==
  OrFile(Strip(SubSpaces(SubUnsafe(Strip(name)))))

\* the last index of character c in s, 0 when absent
RFind(s, c) ==
  IF \E i \in DOMAIN s : s[i] = c
    THEN CHOOSE i \in DOMAIN s : s[i] = c /\ \A j \in (i + 1)..Len(s) : s[j] # c
    ELSE 0

\* os.path.splitext on a path's last segment: the extension starts at its
\* last ".", unless only dots precede that
ExtAt(base, lastDot) ==
  IF lastDot = 0 \/ \A j \in 1..(lastDot - 1) : base[j] = "."
    THEN <<>>
    ELSE SubSeq(base, lastDot, Len(base))

SplitExt(base) == ExtAt(base, RFind(base, "."))

LastOf(segs) == segs[Len(segs)]

OrDefault(ext, default) == IF ext # <<>> THEN ext ELSE default

\* guess_ext_from_url(url, default)
guess_ext_from_url(url, default) ==
  OrDefault(SplitExt(LastOf(Split(urlsplit(url, <<>>).path, "/"))), default)

(***************************************************************************)
(* Catalog item model                                                      *)
(***************************************************************************)
JStr(s) == [t |-> "str", v |-> s]
JList(l) == [t |-> "list", v |-> l]
JDict(d) == [t |-> "dict", v |-> d]
JNull == [t |-> "null", v |-> <<>>]
JNum == [t |-> "num", v |-> <<>>]

\* dict.get(k) with None for a missing key
DictGet(d, k) == IF k \in DOMAIN d THEN d[k] ELSE JNull

IsNonBlankStr(v) == v.t = "str" /\ Strip(v.v) # <<>>

UNTITLED == <<"(","u","n","t","i","t","l","e","d",")">>

\* _get_first returning the last alias that matches instead of the first
RECURSIVE _get_first_LastWins(_, _, _)
_get_first_LastWins(d, keys, default) ==
  IF keys = <<>> THEN default
  ELSE IF IsNonBlankStr(DictGet(d, keys[Len(keys)]))
    THEN Strip(DictGet(d, keys[Len(keys)]).v)
  ELSE _get_first_LastWins(d, SubSeq(keys, 1, Len(keys) - 1), default)

\* _get_first(d, keys, default)
RECURSIVE _get_first(_, _, _)
_get_first(d, keys, default) ==
  IF keys = <<>> THEN default
  ELSE IF IsNonBlankStr(DictGet(d, Head(keys)))
    THEN Strip(DictGet(d, Head(keys)).v)
  ELSE _get_first(d, Tail(keys), default)

\* the list comprehensions of _get_tags: strip each string, drop the blanks
RECURSIVE StrippedNonBlank(_)
StrippedNonBlank(xs) ==
  IF xs = <<>> THEN <<>>
  ELSE (IF IsNonBlankStr(Head(xs)) THEN <<Strip(Head(xs).v)>> ELSE <<>>)
       \o StrippedNonBlank(Tail(xs))

AsJStrs(parts) == [i \in DOMAIN parts |-> JStr(parts[i])]

RECURSIVE TagsFrom(_, _)
TagsFrom(d, keys) ==
  IF keys = <<>> THEN <<>>
  ELSE IF DictGet(d, Head(keys)).t = "list"
    THEN StrippedNonBlank(DictGet(d, Head(keys)).v)
  ELSE IF IsNonBlankStr(DictGet(d, Head(keys)))
    THEN StrippedNonBlank(AsJStrs(Split(DictGet(d, Head(keys)).v, ",")))
  ELSE TagsFrom(d, Tail(keys))

\* _get_tags(d)
_get_tags(d) == TagsFrom(d, <<"tags", "tag", "keywords", "labels">>)

\* raw.get("items", raw.get("worlds", raw.get("data", [])))
RawItems(raw) ==
  IF "items" \in DOMAIN raw THEN raw["items"]
  ELSE IF "worlds" \in DOMAIN raw THEN raw["worlds"]
  ELSE IF "data" \in DOMAIN raw THEN raw["data"]
  ELSE JList(<<>>)

\* CatalogItem(...), unless json_url is empty
ItemOrNone(title, json_url, preview_url, desc, tags, updated) ==
  IF json_url = <<>> THEN <<>>
  ELSE << [title |-> title, json_url |-> json_url,
           preview_url |-> preview_url, description |-> desc,
           tags |-> tags, updated |-> updated] >>

\* the body of the for loop of parse_catalog: the entries one element adds
ParseItem(it, base_url) ==
  IF it.t # "dict" THEN <<>>
  ELSE ItemOrNone(
         _get_first(it.v, <<"name", "title", "world", "id">>, UNTITLED),
         join_url(base_url,
           _get_first(it.v, <<"file", "json", "path", "url", "json_url">>,
                      <<>>)),
         join_url(base_url,
           _get_first(it.v, <<"preview", "image", "thumb", "thumbnail",
                              "preview_url", "image_url">>, <<>>)),
         _get_first(it.v, <<"description", "desc", "about", "notes">>, <<>>),
         _get_tags(it.v),
         _get_first(it.v, <<"updated", "date", "modified">>, <<>>))

RECURSIVE ParseItems(_, _)
ParseItems(items, base_url) ==
  IF items = <<>> THEN <<>>
  ELSE ParseItem(Head(items), base_url) \o ParseItems(Tail(items), base_url)

ListOrEmpty(items) == IF items.t = "list" THEN items.v ELSE <<>>

\* parse_catalog(raw, base_url), raw a dict
parse_catalog(raw, base_url) == ParseItems(ListOrEmpty(RawItems(raw)), base_url)

(***************************************************************************)
(* Inputs of the helper and normalizer calls.                              *)
(***************************************************************************)
\* all strings over the characters cs of length at most n
RECURSIVE StringsUpTo(_, _)
StringsUpTo(cs, n) ==
  IF n = 0 THEN {<<>>}
  ELSE LET shorter == StringsUpTo(cs, n - 1) IN
         shorter \cup {Append(s, c) : s \in shorter, c \in cs}

\* display names: a letter, blank and non-blank whitespace, a character
\* outside the allowed class, and two allowed punctuation characters
NameChars == {"a", " ", "\t", "#", "_", "."}
Names == StringsUpTo(NameChars, MaxLen)

\* base URLs: the default of the program, other absolute ones, a relative
\* one and the empty string (base_url is read from the settings unchecked)
BASE_URL_DEFAULT ==
  <<"h","t","t","p","s",":","/","/","j","s","o","n",".","t","i","k","e","y",
    ".","a","r","t","/">>
Bases == { BASE_URL_DEFAULT,
           <<"h","t","t","p",":","/","/","h">>,
           <<"h","t","t","p",":","/","/","h","/","d","/","/">>,
           <<"d">>,
           <<>> }

\* path_or_url arguments: an optional prefix and a free tail
UrlChars == {"a", "/", ".", " "}
UrlPrefixes == { <<>>, HTTP, HTTPS, <<"f","t","p",":","/","/">>,
                 <<"H","T","T","P",":","/","/">> }
Candidates == {p \o x : p \in UrlPrefixes, x \in StringsUpTo(UrlChars, MaxLen)}

Absent == [t |-> "absent", v |-> <<>>]

\* the dict with the keys of ks whose option is not Absent
DictOf(ks, opt) == JDict([k \in {x \in ks : opt[x].t # "absent"} |-> opt[k]])

TitleVals == { Absent, JNum, JStr(<<>>), JStr(<<" ">>), JStr(<<" ","A">>),
               JStr(<<"B">>) }
FileVals == { Absent, JNull, JStr(<<" ">>),
              JStr(<<"a",".","j","s","o","n">>),
              JStr(<<"/","d","/","b",".","j","s","o","n"," ">>),
              JStr(HTTPS \o <<"c","/","b",".","j","s","o","n">>) }
TagVals == { Absent, JStr(<<"x",","," ","y",",",",">>),
             JList(<<JStr(<<"x">>), JNum, JStr(<<" ">>)>>) }

\* item objects over the first two aliases of title and of file path
ItemDicts ==
  { DictOf({"name", "title", "file", "json"},
           [k \in {"name", "title", "file", "json"} |->
              IF k = "name" THEN n
              ELSE IF k = "title" THEN ti
              ELSE IF k = "file" THEN f ELSE j]) :
      n \in TitleVals, ti \in TitleVals, f \in FileVals, j \in {Absent, JStr(<<"j">>)} }

\* item objects with tags and a preview, and elements that are not objects
OtherElements ==
  { DictOf({"id", "url", "tags", "thumb"},
           [k \in {"id", "url", "tags", "thumb"} |->
              IF k = "id" THEN JStr(<<"W">>)
              ELSE IF k = "url" THEN JStr(<<"w">>)
              ELSE IF k = "tags" THEN tg ELSE JStr(<<"p",".","p","n","g">>)]) :
      tg \in TagVals }
  \cup {JStr(<<"x">>), JNull, JList(<<>>)}

ElemA == JDict([name |-> JStr(<<"A">>), file |-> JStr(<<"a">>)])
ElemB == JDict([title |-> JStr(<<"B">>), json_url |-> JStr(<<"b">>)])
ElemC == JDict([id |-> JStr(<<"C">>), path |-> JStr(<<"c">>)])

\* values of a top-level key: missing, not a list, or a list
TopVals(e) == { Absent, JNull, JStr(<<"x">>), JDict(<<>>), JList(<<>>),
                JList(<<e>>) }

\* documents that differ in which of items/worlds/data are present and lists
ShapeDocs ==
  { DictOf({"items", "worlds", "data"},
           [k \in {"items", "worlds", "data"} |->
              IF k = "items" THEN a ELSE IF k = "worlds" THEN b ELSE c]) :
      a \in TopVals(ElemA), b \in TopVals(ElemB), c \in TopVals(ElemC) }

\* all lists over the elements es of length at most n
RECURSIVE ListsUpTo(_, _)
ListsUpTo(es, n) ==
  IF n = 0 THEN {<<>>}
  ELSE LET shorter == ListsUpTo(es, n - 1) IN
         shorter \cup {Append(l, e) : l \in shorter, e \in es}

\* documents that differ in the elements of the item list
ItemDocs ==
  { JDict([items |-> JList(<<e>>)]) : e \in ItemDicts }
  \cup { JDict([worlds |-> JList(l)]) : l \in ListsUpTo(OtherElements, MaxItems) }

Docs == ShapeDocs \cup ItemDocs

(***************************************************************************)
(* Inputs of the workers.                                                  *)
(***************************************************************************)
\* an index document: an entry with tags and a preview, one with an absolute
\* URL and no preview, and one whose title sanitizes to the first one's
SampleDoc ==
  JDict([items |-> JList(<<
    JDict([name |-> JStr(<<"A","_">>),
           file |-> JStr(<<"a",".","j","s","o","n">>),
           preview |-> JStr(<<"a",".","p","n","g">>),
           tags |-> JStr(<<"x",","," ","y">>)]),
    JDict([title |-> JStr(<<"B">>),
           json_url |-> JStr(HTTPS \o <<"c","/","b">>),
           desc |-> JStr(<<"x">>)]),
    JDict([id |-> JStr(<<"A","#">>),
           url |-> JStr(<<"d","/","c",".","t","x","t">>),
           thumb |-> JStr(<<"c">>),
           labels |-> JList(<<JStr(<<"y">>)>>)]) >>)])

SmallDoc == JDict([worlds |-> JList(<<ElemB>>)])

SampleCatalog == parse_catalog(SampleDoc.v, BASE_URL_DEFAULT)

\* the lists of entries a DownloadWorker is given
ItemLists == ListsUpTo(Range(SampleCatalog), MaxItems)

\* what the index URL answers: text that is no JSON, or a JSON value
Bodies == { [valid |-> FALSE, json |-> JNull],
            [valid |-> TRUE, json |-> SampleDoc],
            [valid |-> TRUE, json |-> SmallDoc],
            [valid |-> TRUE, json |-> JDict(<<>>)],
            [valid |-> TRUE, json |-> JList(<<ElemA>>)] }

DOT_JSON == <<".","j","s","o","n">>
DOT_WEBP == <<".","w","e","b","p">>

(***************************************************************************)
(* State.                                                                  *)
(*   call, ret    : one call of a helper or of the normalizer: its         *)
(*                  arguments, and the values returned so far              *)
(*   fw_pc,                                                                *)
(*   fw_data,                                                              *)
(*   fw_sig       : a FetchCatalogWorker: its place in run(), the body it  *)
(*                  read, the signals it emitted                           *)
(*   dl_items,                                                             *)
(*   also_preview : the arguments of a DownloadWorker                      *)
(*   dl_pc, dl_i,                                                          *)
(*   dl_target,                                                            *)
(*   dl_done      : its place in run(): the statement, the index of the    *)
(*                  entry, the file being downloaded, the local done       *)
(*   dl_log       : the signals it emitted and the network and file calls  *)
(*                  it made, in order                                      *)
(*   fs_dirs,                                                              *)
(*   fs_files     : the directories and files under out_dir                *)
(*   btn_refresh,                                                          *)
(*   btn_download : MainWindow: whether each button is enabled             *)
(*   fetch_running,                                                        *)
(*   dl_running   : the workers of each kind that were started and have    *)
(*                  not emitted their terminal signal                      *)
(*   fetch_started,                                                        *)
(*   dl_started   : the workers of each kind started so far                *)
(*   events       : the signals queued for the window's thread             *)
(*   catalog,                                                              *)
(*   filtered     : self.catalog, self.filtered                            *)
(*   selected     : the selected rows of listw                             *)
(*   search       : the text of the search field                           *)
(*   tag_items,                                                            *)
(*   tag_current  : the tags offered by tag_filter, and its current text   *)
(***************************************************************************)
VARIABLES call, ret,
          fw_pc, fw_data, fw_sig,
          dl_items, also_preview, dl_pc, dl_i, dl_target, dl_done, dl_log,
          fs_dirs, fs_files,
          btn_refresh, btn_download, fetch_running, dl_running,
          fetch_started, dl_started, events,
          catalog, filtered, selected, search, tag_items, tag_current

pureVars == <<call, ret>>
fetchVars == <<fw_pc, fw_data, fw_sig>>
dlVars == <<dl_items, also_preview, dl_pc, dl_i, dl_target, dl_done, dl_log,
            fs_dirs, fs_files>>
jobVars == <<fetchVars, dlVars>>
btnVars == <<btn_refresh, btn_download>>
threadVars == <<fetch_running, dl_running, fetch_started, dl_started>>
listVars == <<catalog, filtered, selected, search, tag_items, tag_current>>
uiVars == <<btnVars, threadVars, events, listVars>>
vars == <<pureVars, jobVars, uiVars>>

NoCall == [op |-> "none"]

\* no helper call is being followed
PureIdle == call = NoCall /\ ret = <<>>

\* no worker exists
WorkersIdle ==
  /\ fw_pc = "none" /\ fw_data = [valid |-> FALSE, json |-> JNull]
  /\ fw_sig = <<>>
  /\ dl_items = <<>> /\ also_preview = FALSE /\ dl_pc = "none"
  /\ dl_i = 0 /\ dl_target = "json" /\ dl_done = 0 /\ dl_log = <<>>
  /\ fs_dirs = {} /\ fs_files = {}

ALL_TAGS == <<"(","t","u","t","t","i"," ","i"," ","t","a","g",")">>

\* no window exists
WindowIdle ==
  /\ btn_refresh = FALSE /\ btn_download = FALSE
  /\ fetch_running = 0 /\ dl_running = 0
  /\ fetch_started = 0 /\ dl_started = 0
  /\ events = <<>>
  /\ catalog = <<>> /\ filtered = <<>> /\ selected = {}
  /\ search = <<>> /\ tag_items = {} /\ tag_current = ALL_TAGS

(***************************************************************************)
(* Calls of the pure functions.                                            *)
(***************************************************************************)
InitPure ==
  /\ ret = <<>>
  /\ \/ \E b \in Bases, c \in Candidates :
          call = [op |-> "join_url", base |-> b, path_or_url |-> c]
     \/ \E n \in Names : call = [op |-> "safe_filename", name |-> n]
     \/ \E d \in Docs, b \in Bases :
          call = [op |-> "parse_catalog", raw |-> d.v, base_url |-> b]
  /\ WorkersIdle
  /\ WindowIdle

\* p = join_url(base, path_or_url)
Call_join_url ==
  /\ call.op = "join_url"
  /\ ret = <<>>
  /\ ret' = <<join_url(call.base, call.path_or_url)>>
  /\ UNCHANGED <<call, jobVars, uiVars>>

\* n = safe_filename(name), then safe_filename(n)
Call_safe_filename ==
  /\ call.op = "safe_filename"
  /\ Len(ret) < 2
  /\ ret' = Append(ret, safe_filename(IF ret = <<>> THEN call.name
                                      ELSE ret[Len(ret)]))
  /\ UNCHANGED <<call, jobVars, uiVars>>

\* items = parse_catalog(raw, base_url)
Call_parse_catalog ==
  /\ call.op = "parse_catalog"
  /\ ret = <<>>
  /\ ret' = <<parse_catalog(call.raw, call.base_url)>>
  /\ UNCHANGED <<call, jobVars, uiVars>>

NextPure == Call_join_url \/ Call_safe_filename \/ Call_parse_catalog

SpecPure == InitPure /\ [][NextPure]_vars

(***************************************************************************)
(* Networking workers (QThread)                                            *)
(***************************************************************************)
\* FetchCatalogWorker(index_url, base_url) and DownloadWorker(items, out_dir,
\* also_preview), started. out_dir exists (download_selected made it); its
\* json and preview directories may.
InitJobs ==
  /\ PureIdle
  /\ fw_pc = "urlopen" /\ fw_data = [valid |-> FALSE, json |-> JNull]
  /\ fw_sig = <<>>
  /\ dl_items \in ItemLists
  /\ also_preview \in BOOLEAN
  /\ dl_pc = "start" /\ dl_i = 0 /\ dl_target = "json" /\ dl_done = 0
  /\ dl_log = <<>>
  /\ fs_dirs \in SUBSET {"json", "preview"}
  /\ fs_files = {}
  /\ WindowIdle

\* FetchCatalogWorker.run: except Exception as e: self.fail.emit(str(e))
Fetch_Raise ==
  /\ fw_sig' = Append(fw_sig, [sig |-> "fail"])
  /\ fw_pc' = "end"
  /\ UNCHANGED fw_data

\* FetchCatalogWorker.run: urlopen(req, timeout=20), resp.read().decode(
\* "utf-8", errors="replace"): the request fails, or data is the body
FetchCatalogWorker_urlopen ==
  /\ fw_pc = "urlopen"
  /\ \/ Fetch_Raise
     \/ \E body \in Bodies :
          /\ fw_data' = body
          /\ fw_pc' = "loads"
          /\ UNCHANGED fw_sig
  /\ UNCHANGED <<pureVars, dlVars, uiVars>>

\* FetchCatalogWorker.run: json.loads(data) raises on text that is no JSON,
\* parse_catalog raises on a value without get(); else ok.emit(items)
FetchCatalogWorker_parse ==
  /\ fw_pc = "loads"
  /\ IF ~fw_data.valid \/ fw_data.json.t # "dict"
       THEN Fetch_Raise
       ELSE /\ fw_sig' = Append(fw_sig,
                 [sig |-> "ok",
                  items |-> parse_catalog(fw_data.json.v, BASE_URL_DEFAULT)])
            /\ fw_pc' = "end"
            /\ UNCHANGED fw_data
  /\ UNCHANGED <<pureVars, dlVars, uiVars>>

\* the entry the loop of DownloadWorker.run is at
CurItem == dl_items[dl_i]

Total == Len(dl_items)

\* Download_Raise with the try inside the loop: the run goes on with the next
\* entry after the failure signal
Download_Raise_Continue ==
  /\ dl_log' = Append(dl_log, [ev |-> "io", op |-> dl_pc, i |-> dl_i,
                               target |-> dl_target, ok |-> FALSE])
                 \o <<[ev |-> "fail"]>>
  /\ dl_pc' = "loop"
  /\ dl_i' = dl_i + 1
  /\ UNCHANGED <<dl_items, also_preview, dl_target, dl_done>>

\* DownloadWorker.run: except Exception as e: self.fail.emit(str(e))
Download_Raise ==
  /\ dl_log' = Append(dl_log, [ev |-> "io", op |-> dl_pc, i |-> dl_i,
                               target |-> dl_target, ok |-> FALSE])
                 \o <<[ev |-> "fail"]>>
  /\ dl_pc' = "end"
  /\ UNCHANGED <<dl_items, also_preview, dl_i, dl_target, dl_done>>

\* the call at dl_pc returned
IoDone == [ev |-> "io", op |-> dl_pc, i |-> dl_i, target |-> dl_target,
           ok |-> TRUE]

\* DownloadWorker.run: total = len(self.items), done = 0,
\* os.makedirs(self.out_dir, exist_ok=True)
DownloadWorker_start ==
  /\ dl_pc = "start"
  /\ \/ Download_Raise /\ UNCHANGED <<fs_dirs, fs_files>>
     \/ /\ dl_log' = Append(dl_log, IoDone)
        /\ dl_pc' = "loop"
        /\ dl_i' = 1
        /\ dl_done' = 0
        /\ UNCHANGED <<dl_items, also_preview, dl_target, fs_dirs, fs_files>>
  /\ UNCHANGED <<pureVars, fetchVars, uiVars>>

\* DownloadWorker_loop with done emitted before the closing log line
DownloadWorker_loop_DoneFirst ==
  /\ dl_pc = "loop"
  /\ IF dl_i <= Len(dl_items)
       THEN /\ dl_log' = Append(dl_log, [ev |-> "log", i |-> dl_i])
            /\ dl_pc' = "urlopen"
            /\ dl_target' = "json"
       ELSE /\ dl_log' = dl_log \o <<[ev |-> "done"], [ev |-> "log", i |-> 0]>>
            /\ dl_pc' = "end"
            /\ UNCHANGED dl_target
  /\ UNCHANGED <<dl_items, also_preview, dl_i, dl_done, fs_dirs, fs_files>>
  /\ UNCHANGED <<pureVars, fetchVars, uiVars>>

\* DownloadWorker.run: for it in self.items: the log line of the next entry,
\* and its JSON path; after the last entry the closing log line and done
DownloadWorker_loop ==
  /\ dl_pc = "loop"
  /\ IF dl_i <= Total
       THEN /\ dl_log' = Append(dl_log, [ev |-> "log", i |-> dl_i])
            /\ dl_pc' = "urlopen"
            /\ dl_target' = "json"
       ELSE /\ dl_log' = dl_log \o <<[ev |-> "log", i |-> 0], [ev |-> "done"]>>
            /\ dl_pc' = "end"
            /\ UNCHANGED dl_target
  /\ UNCHANGED <<dl_items, also_preview, dl_i, dl_done, fs_dirs, fs_files>>
  /\ UNCHANGED <<pureVars, fetchVars, uiVars>>

\* the path _download_to is called with: json_path or img_path under out_dir
TargetPath ==
  IF dl_target = "json"
    THEN [dir |-> "json",
          name |-> safe_filename(CurItem.title)
                     \o guess_ext_from_url(CurItem.json_url, DOT_JSON)]
    ELSE [dir |-> "preview",
          name |-> safe_filename(CurItem.title)
                     \o guess_ext_from_url(CurItem.preview_url, DOT_WEBP)]

\* DownloadWorker._download_to: urlopen(req, timeout=30), resp.read()
DownloadWorker_urlopen ==
  /\ dl_pc = "urlopen"
  /\ \/ Download_Raise
     \/ /\ dl_log' = Append(dl_log, IoDone)
        /\ dl_pc' = "makedirs"
        /\ UNCHANGED <<dl_items, also_preview, dl_i, dl_target, dl_done>>
  /\ UNCHANGED <<fs_dirs, fs_files>>
  /\ UNCHANGED <<pureVars, fetchVars, uiVars>>

\* DownloadWorker_makedirs that ensures out_dir only, not the directory of
\* the path
DownloadWorker_makedirs_OutDirOnly ==
  /\ dl_pc = "makedirs"
  /\ \/ Download_Raise /\ UNCHANGED fs_dirs
     \/ /\ dl_log' = Append(dl_log, IoDone)
        /\ fs_dirs' = fs_dirs
        /\ dl_pc' = "write"
        /\ UNCHANGED <<dl_items, also_preview, dl_i, dl_target, dl_done>>
  /\ UNCHANGED fs_files
  /\ UNCHANGED <<pureVars, fetchVars, uiVars>>

\* DownloadWorker._download_to: os.makedirs(os.path.dirname(path),
\* exist_ok=True)
DownloadWorker_makedirs ==
  /\ dl_pc = "makedirs"
  /\ \/ Download_Raise /\ UNCHANGED fs_dirs
     \/ /\ dl_log' = Append(dl_log, IoDone)
        /\ fs_dirs' = fs_dirs \cup {TargetPath.dir}
        /\ dl_pc' = "write"
        /\ UNCHANGED <<dl_items, also_preview, dl_i, dl_target, dl_done>>
  /\ UNCHANGED fs_files
  /\ UNCHANGED <<pureVars, fetchVars, uiVars>>

OtherFiles == {f \in fs_files : f.path # TargetPath}

\* AfterDownload with progress emitted before done is incremented
AfterDownload_StaleDone ==
  IF dl_target = "json" /\ also_preview /\ dl_items[dl_i].preview_url # <<>>
    THEN /\ dl_log' = dl_log \o <<[ev |-> "io", op |-> dl_pc, i |-> dl_i,
                                   target |-> dl_target, ok |-> TRUE],
                                  [ev |-> "log", i |-> dl_i]>>
         /\ dl_target' = "preview"
         /\ dl_pc' = "urlopen"
         /\ UNCHANGED <<dl_i, dl_done>>
    ELSE /\ dl_log' = dl_log \o
              <<[ev |-> "io", op |-> dl_pc, i |-> dl_i,
                 target |-> dl_target, ok |-> TRUE],
                [ev |-> "log", i |-> dl_i],
                [ev |-> "progress", done |-> dl_done,
                 total |-> Len(dl_items), title |-> dl_items[dl_i].title]>>
         /\ dl_done' = dl_done + 1
         /\ dl_i' = dl_i + 1
         /\ dl_pc' = "loop"
         /\ UNCHANGED dl_target

\* DownloadWorker.run after a _download_to that returned: the log line of the
\* file; then the preview of the same entry, or done += 1 and progress
AfterDownload ==
  IF dl_target = "json" /\ also_preview /\ CurItem.preview_url # <<>>
    THEN /\ dl_log' = dl_log \o <<IoDone, [ev |-> "log", i |-> dl_i]>>
         /\ dl_target' = "preview"
         /\ dl_pc' = "urlopen"
         /\ UNCHANGED <<dl_i, dl_done>>
    ELSE /\ dl_log' = dl_log \o
              <<IoDone, [ev |-> "log", i |-> dl_i],
                [ev |-> "progress", done |-> dl_done + 1, total |-> Total,
                 title |-> CurItem.title]>>
         /\ dl_done' = dl_done + 1
         /\ dl_i' = dl_i + 1
         /\ dl_pc' = "loop"
         /\ UNCHANGED dl_target

\* DownloadWorker._download_to: open(path, "wb"), f.write(data): the file
\* holds the payload; or the call raises, before the file is opened or with
\* the file left incomplete
DownloadWorker_write ==
  /\ dl_pc = "write"
  /\ \/ /\ Download_Raise
        /\ \/ UNCHANGED fs_files
           \/ fs_files' = OtherFiles \cup {[path |-> TargetPath, complete |-> FALSE]}
     \/ /\ fs_files' = OtherFiles \cup {[path |-> TargetPath, complete |-> TRUE]}
        /\ AfterDownload
        /\ UNCHANGED <<dl_items, also_preview>>
  /\ UNCHANGED fs_dirs
  /\ UNCHANGED <<pureVars, fetchVars, uiVars>>

NextJobs ==
  \/ FetchCatalogWorker_urlopen
  \/ FetchCatalogWorker_parse
  \/ DownloadWorker_start
  \/ DownloadWorker_loop
  \/ DownloadWorker_urlopen
  \/ DownloadWorker_makedirs
  \/ DownloadWorker_write

SpecJobs == InitJobs /\ [][NextJobs]_vars

(***************************************************************************)
(* UI: MainWindow, with each worker seen from the window: started, then    *)
(* its terminal signal queued for the window's thread.                     *)
(***************************************************************************)
\* what a FetchCatalogWorker can emit with ok
Catalogs == { SampleCatalog, parse_catalog(SmallDoc.v, BASE_URL_DEFAULT), <<>> }

\* texts the user types into the search field
Queries == { <<>>, <<" ", "X">>, <<"b">>, <<" ", "A">> }

\* q in blob
Contains(blob, q) ==
  \E i \in 0..(Len(blob) - Len(q)) : SubSeq(blob, i + 1, i + Len(q)) = q

\* the blob of match(): title, description, the tags and updated, joined
Blob(it) ==
  Lower(Join(<<it.title, it.description, Join(it.tags, " "), it.updated>>, " "))

\* match(it) without the test of the tag
Match_TagIgnored(it, q, tag) ==
  IF q = <<>> THEN TRUE
  ELSE Contains(Blob(it), q)

\* match(it) of apply_filter, for its q and tag
Match(it, q, tag) ==
  IF tag # <<>> /\ tag \notin Range(it.tags) THEN FALSE
  ELSE IF q = <<>> THEN TRUE
  ELSE Contains(Blob(it), q)

Matching(it) ==
  Match(it, Lower(Strip(search')),
        IF tag_current' = ALL_TAGS THEN <<>> ELSE tag_current')

\* populate_list: the rows are replaced, and the first one is selected
FirstRow(rows) == IF rows = <<>> THEN {} ELSE {1}

\* apply_filter, then populate_list, on the new catalog, text and tag
apply_filter ==
  /\ filtered' = SelectSeq(catalog', Matching)
  /\ selected' = FirstRow(SelectSeq(catalog', Matching))

\* the window after __init__, which ends with refresh_catalog()
InitUI ==
  /\ PureIdle
  /\ WorkersIdle
  /\ btn_refresh = FALSE /\ btn_download = TRUE
  /\ fetch_running = 1 /\ fetch_started = 1
  /\ dl_running = 0 /\ dl_started = 0
  /\ events = <<>>
  /\ catalog = <<>> /\ filtered = <<>> /\ selected = {}
  /\ search = <<>> /\ tag_items = {} /\ tag_current = ALL_TAGS

\* refresh_catalog, on a click of btn_refresh
refresh_catalog ==
  /\ btn_refresh
  /\ fetch_started < MaxWorkers
  /\ btn_refresh' = FALSE
  /\ fetch_running' = fetch_running + 1
  /\ fetch_started' = fetch_started + 1
  /\ UNCHANGED <<btn_download, dl_running, dl_started, events, listVars>>
  /\ UNCHANGED <<pureVars, jobVars>>

\* FetchCatalogWorker.run, seen from the window: ok(items) or fail(message)
FetchCatalogWorker_run ==
  /\ fetch_running > 0
  /\ fetch_running' = fetch_running - 1
  /\ \/ \E items \in Catalogs :
          events' = Append(events, [sig |-> "ok", items |-> items])
     \/ events' = Append(events, [sig |-> "fail"])
  /\ UNCHANGED <<btnVars, dl_running, fetch_started, dl_started, listVars>>
  /\ UNCHANGED <<pureVars, jobVars>>

\* the tags of a catalog
TagsOf(items) == UNION {Range(items[i].tags) : i \in DOMAIN items}

\* on_catalog_ok that enables both buttons, as on_dl_done does
on_catalog_ok_EnablesBoth ==
  /\ events # <<>> /\ Head(events).sig = "ok"
  /\ events' = Tail(events)
  /\ btn_refresh' = TRUE
  /\ btn_download' = TRUE
  /\ catalog' = Head(events).items
  /\ tag_items' = UNION {Range(Head(events).items[i].tags) :
                           i \in DOMAIN Head(events).items}
  /\ tag_current' = ALL_TAGS
  /\ UNCHANGED search
  /\ apply_filter
  /\ UNCHANGED threadVars
  /\ UNCHANGED <<pureVars, jobVars>>

\* on_catalog_ok(items)
on_catalog_ok ==
  /\ events # <<>> /\ Head(events).sig = "ok"
  /\ events' = Tail(events)
  /\ btn_refresh' = TRUE
  /\ catalog' = Head(events).items
  /\ tag_items' = TagsOf(Head(events).items)
  /\ tag_current' = ALL_TAGS
  /\ UNCHANGED search
  /\ apply_filter
  /\ UNCHANGED <<btn_download, threadVars>>
  /\ UNCHANGED <<pureVars, jobVars>>

\* on_catalog_fail(err)
on_catalog_fail ==
  /\ events # <<>> /\ Head(events).sig = "fail"
  /\ events' = Tail(events)
  /\ btn_refresh' = TRUE
  /\ UNCHANGED <<btn_download, threadVars, listVars>>
  /\ UNCHANGED <<pureVars, jobVars>>

\* apply_filter, on textChanged of the search field
search_textChanged ==
  /\ \E text \in Queries : text # search /\ search' = text
  /\ UNCHANGED <<catalog, tag_items, tag_current>>
  /\ apply_filter
  /\ UNCHANGED <<btnVars, threadVars, events>>
  /\ UNCHANGED <<pureVars, jobVars>>

\* apply_filter, on currentIndexChanged of tag_filter
tag_currentIndexChanged ==
  /\ \E t \in tag_items \cup {ALL_TAGS} : t # tag_current /\ tag_current' = t
  /\ UNCHANGED <<catalog, tag_items, search>>
  /\ apply_filter
  /\ UNCHANGED <<btnVars, threadVars, events>>
  /\ UNCHANGED <<pureVars, jobVars>>

\* the user changes the selection of listw (on_select only shows a preview)
on_select ==
  /\ \E rows \in SUBSET DOMAIN filtered : rows # selected /\ selected' = rows
  /\ UNCHANGED <<catalog, filtered, search, tag_items, tag_current>>
  /\ UNCHANGED <<btnVars, threadVars, events>>
  /\ UNCHANGED <<pureVars, jobVars>>

\* download_selected, on a click of btn_download: nothing is selected or
\* out_dir cannot be made, and it returns; or it starts a DownloadWorker
download_selected ==
  /\ btn_download
  /\ \/ /\ selected = {}
        /\ UNCHANGED <<btnVars, threadVars>>
     \/ /\ selected # {}
        /\ UNCHANGED <<btnVars, threadVars>>
     \/ /\ selected # {}
        /\ dl_started < MaxWorkers
        /\ btn_download' = FALSE
        /\ btn_refresh' = FALSE
        /\ dl_running' = dl_running + 1
        /\ dl_started' = dl_started + 1
        /\ UNCHANGED <<fetch_running, fetch_started>>
  /\ UNCHANGED <<events, listVars>>
  /\ UNCHANGED <<pureVars, jobVars>>

\* DownloadWorker.run, seen from the window: done or fail(message)
DownloadWorker_run ==
  /\ dl_running > 0
  /\ dl_running' = dl_running - 1
  /\ \/ events' = Append(events, [sig |-> "done"])
     \/ events' = Append(events, [sig |-> "dl_fail"])
  /\ UNCHANGED <<btnVars, fetch_running, fetch_started, dl_started, listVars>>
  /\ UNCHANGED <<pureVars, jobVars>>

\* on_dl_done()
on_dl_done ==
  /\ events # <<>> /\ Head(events).sig = "done"
  /\ events' = Tail(events)
  /\ btn_download' = TRUE
  /\ btn_refresh' = TRUE
  /\ UNCHANGED <<threadVars, listVars>>
  /\ UNCHANGED <<pureVars, jobVars>>

\* on_dl_fail(err)
on_dl_fail ==
  /\ events # <<>> /\ Head(events).sig = "dl_fail"
  /\ events' = Tail(events)
  /\ btn_download' = TRUE
  /\ btn_refresh' = TRUE
  /\ UNCHANGED <<threadVars, listVars>>
  /\ UNCHANGED <<pureVars, jobVars>>

Next ==
  \/ refresh_catalog
  \/ FetchCatalogWorker_run
  \/ on_catalog_ok
  \/ on_catalog_fail
  \/ search_textChanged
  \/ tag_currentIndexChanged
  \/ on_select
  \/ download_selected
  \/ DownloadWorker_run
  \/ on_dl_done
  \/ on_dl_fail

Spec == InitUI /\ [][Next]_vars

(***************************************************************************)
(* Properties of the window, under Spec.                                   *)
(***************************************************************************)
\* C1: at most one FetchCatalogWorker is in flight: none is started while
\* one that was started has not emitted ok or fail.
C1_AtMostOneFetch == fetch_running <= 1

IsDownloadSignal(e) == e.sig \in {"done", "dl_fail"}

\* C2: at most one DownloadWorker is in flight, and btn_download is disabled
\* from the start of a download until its terminal signal is handled.
C2_AtMostOneDownload ==
  /\ dl_running <= 1
  /\ (dl_running > 0 \/ \E p \in DOMAIN events : IsDownloadSignal(events[p]))
       => ~btn_download

\* a second download is in flight and a catalog handler has enabled
\* btn_refresh meanwhile
C2_Witness ==
  /\ dl_running = 1
  /\ dl_started >= 2
  /\ btn_refresh
  /\ ~btn_download

(***************************************************************************)
(* Properties of the helpers and of the normalizer, under SpecPure.        *)
(***************************************************************************)
IsParseCall == call.op = "parse_catalog" /\ ret # <<>>

\* a URL is absolute when it starts with a scheme
IsAbsoluteUrl(u) == urlsplit(u, <<>>).scheme # <<>>

\* C6: every entry the normalizer returns, for every document and every
\* base URL string, has a json_url that is non-empty and absolute.
C6_JsonUrlAbsolute ==
  IsParseCall =>
    \A i \in DOMAIN ret[1] :
      ret[1][i].json_url # <<>> /\ IsAbsoluteUrl(ret[1][i].json_url)

IsListAt(raw, k) == k \in DOMAIN raw /\ raw[k].t = "list"

\* the value of the first of items, worlds, data that is a list
FirstListOf(raw) ==
  IF IsListAt(raw, "items") THEN raw["items"].v
  ELSE IF IsListAt(raw, "worlds") THEN raw["worlds"].v
  ELSE IF IsListAt(raw, "data") THEN raw["data"].v
  ELSE <<>>

\* C7: the entries come from the first of the keys items, worlds, data whose
\* value is a list, a present key with another value being passed over, and
\* there are none when no key holds a list.
C7_FirstListKeyUsed ==
  IsParseCall => ret[1] = ParseItems(FirstListOf(call.raw), call.base_url)

\* the call normalizes {"items": [e]} for an object e with the keys k1 and
\* k2, and returned an entry for e
IsPairCall(k1, k2) ==
  /\ IsParseCall
  /\ IsListAt(call.raw, "items")
  /\ Len(call.raw["items"].v) = 1
  /\ call.raw["items"].v[1].t = "dict"
  /\ {k1, k2} \subseteq DOMAIN call.raw["items"].v[1].v
  /\ Len(ret[1]) = 1

TheItem == call.raw["items"].v[1].v

\* C8 as claimed: with name and title both present the title of the entry is
\* the value of name, whatever the two values are.
C8_EarlierAliasWinsAlways ==
  IsPairCall("name", "title") =>
    /\ TheItem["name"].t = "str"
    /\ ret[1][1].title = Strip(TheItem["name"].v)

\* C8: with two aliases of a field both present, the earlier one gives the
\* field whenever its value is a string that is not blank, whatever the
\* later one holds; an earlier alias that is no such string is skipped and
\* the later one, if it is such a string, gives the field.
C8_EarlierNonBlankAliasWins ==
  /\ IsPairCall("name", "title") =>
       /\ IsNonBlankStr(TheItem["name"]) =>
            ret[1][1].title = Strip(TheItem["name"].v)
       /\ (~IsNonBlankStr(TheItem["name"]) /\ IsNonBlankStr(TheItem["title"]))
            => ret[1][1].title = Strip(TheItem["title"].v)
  /\ IsPairCall("file", "json") =>
       /\ IsNonBlankStr(TheItem["file"]) =>
            ret[1][1].json_url = join_url(call.base_url, Strip(TheItem["file"].v))
       /\ ~IsNonBlankStr(TheItem["file"]) =>
            ret[1][1].json_url = join_url(call.base_url, Strip(TheItem["json"].v))

\* both aliases hold different non-blank strings and the earlier one was used
C8_Witness ==
  /\ IsPairCall("name", "title")
  /\ IsNonBlankStr(TheItem["name"])
  /\ IsNonBlankStr(TheItem["title"])
  /\ Strip(TheItem["name"].v) # Strip(TheItem["title"].v)
  /\ ret[1][1].title = Strip(TheItem["name"].v)

IsAbsoluteJoin ==
  /\ call.op = "join_url"
  /\ ret # <<>>
  /\ \/ StartsWith(call.path_or_url, HTTP)
     \/ StartsWith(call.path_or_url, HTTPS)

\* C9 as claimed: a candidate that begins with http:// or https:// is
\* returned character for character, trailing whitespace included.
C9_AbsoluteReturnedVerbatim == IsAbsoluteJoin => ret[1] = call.path_or_url

\* C9: a candidate that begins with http:// or https:// is returned without
\* its trailing whitespace and otherwise character for character, for every
\* base: the result is the candidate's longest prefix that does not end in
\* whitespace.
C9_AbsoluteReturnedTrimmed ==
  IsAbsoluteJoin =>
    \E k \in 0..Len(call.path_or_url) :
      /\ ret[1] = SubSeq(call.path_or_url, 1, k)
      /\ \A j \in (k + 1)..Len(call.path_or_url) : IsSpace(call.path_or_url[j])
      /\ k > 0 => ~IsSpace(call.path_or_url[k])

\* an absolute candidate with trailing whitespace was resolved against a
\* base that is not empty
C9_Witness ==
  /\ IsAbsoluteJoin
  /\ IsSpace(call.path_or_url[Len(call.path_or_url)])
  /\ call.base # <<>>
  /\ ret[1] # call.path_or_url

\* C10: safe_filename is idempotent: applied to its own result it returns
\* that result, for every name.
C10_SanitizeIdempotent ==
  (call.op = "safe_filename" /\ Len(ret) = 2) => ret[2] = ret[1]

\* a name with whitespace and a disallowed character was sanitized twice
C10_Witness ==
  /\ call.op = "safe_filename"
  /\ Len(ret) = 2
  /\ \E i \in DOMAIN call.name : call.name[i] = "#"
  /\ \E i \in DOMAIN call.name : call.name[i] = "\t"
  /\ ret[1] # call.name

(***************************************************************************)
(* Properties of the workers, under SpecJobs.                              *)
(***************************************************************************)
IsIo(e) == e.ev = "io"
IsProgress(e) == e.ev = "progress"
IsTerminal(e) == e.ev \in {"done", "fail"}

\* a call for entry i failed at place p of the log
IsFailureAt(p) == IsIo(dl_log[p]) /\ ~dl_log[p].ok /\ dl_log[p].i >= 1

\* the file `target` of entry j was written before place p of the log
WrittenBefore(j, target, p) ==
  \E q \in 1..(p - 1) :
    /\ IsIo(dl_log[q])
    /\ dl_log[q].op = "write" /\ dl_log[q].ok
    /\ dl_log[q].i = j /\ dl_log[q].target = target

WantsPreview(j) == also_preview /\ dl_items[j].preview_url # <<>>

\* both files of entry j, as far as it has both, were written before place p
EntryWrittenBefore(j, p) ==
  /\ WrittenBefore(j, "json", p)
  /\ WantsPreview(j) => WrittenBefore(j, "preview", p)

\* C3: when a call fails while entry k is processed, the failure signal is
\* emitted, no fetch or write of a later entry is ever started, and every
\* entry before k has had its JSON file, and its preview file when preview
\* is enabled and its preview_url is not empty, written.
C3_FailFast ==
  \A p \in DOMAIN dl_log :
    IsFailureAt(p) =>
      /\ p < Len(dl_log) /\ dl_log[p + 1].ev = "fail"
      /\ \A q \in DOMAIN dl_log : IsIo(dl_log[q]) => dl_log[q].i <= dl_log[p].i
      /\ \A q \in (p + 1)..Len(dl_log) : ~IsIo(dl_log[q])
      /\ \A j \in 1..(dl_log[p].i - 1) : EntryWrittenBefore(j, p)

\* the write of the second entry failed after the first entry's JSON and
\* preview were written
C3_Witness ==
  /\ dl_pc = "end"
  /\ \E p \in DOMAIN dl_log :
       /\ IsFailureAt(p)
       /\ dl_log[p].i = 2 /\ dl_log[p].op = "write"
  /\ WantsPreview(1)

\* C4: a run of either worker emits exactly one terminal signal and no signal
\* after it: the fetch worker one of ok and fail, the download worker one of
\* done and fail, last of all it emits.
C4_OneTerminalSignal ==
  /\ Len(fw_sig) <= 1
  /\ fw_pc = "end" <=> Len(fw_sig) = 1
  /\ \A p \in DOMAIN fw_sig : fw_sig[p].sig \in {"ok", "fail"}
  /\ \A p \in DOMAIN dl_log : IsTerminal(dl_log[p]) => p = Len(dl_log)
  /\ dl_pc = "end" <=> (dl_log # <<>> /\ IsTerminal(dl_log[Len(dl_log)]))

\* the fetch worker failed on a body that is JSON but no object, and the
\* download worker failed after it had emitted progress
C4_Witness ==
  /\ fw_pc = "end" /\ fw_sig[1].sig = "fail" /\ fw_data.valid
  /\ dl_pc = "end" /\ dl_log[Len(dl_log)].ev = "fail"
  /\ \E p \in DOMAIN dl_log : IsProgress(dl_log[p])

ProgressSignals == SelectSeq(dl_log, IsProgress)

IsWrite(e) == IsIo(e) /\ e.op = "write"

HasDone == \E p \in DOMAIN dl_log : dl_log[p].ev = "done"

\* C5: the progress signals are (1, n, title_1), (2, n, title_2), ... in the
\* order of the entries, each emitted after the files of its entry were
\* written; done comes after all n of them; a run with one entry and
\* preview disabled writes exactly one file, under json.
C5_ProgressInOrder ==
  /\ \A m \in DOMAIN ProgressSignals :
       /\ ProgressSignals[m].done = m
       /\ ProgressSignals[m].total = Len(dl_items)
       /\ ProgressSignals[m].title = dl_items[m].title
  /\ \A p \in DOMAIN dl_log :
       IsProgress(dl_log[p]) => EntryWrittenBefore(dl_log[p].done, p)
  /\ \A p \in DOMAIN dl_log :
       dl_log[p].ev = "done" =>
         /\ Len(ProgressSignals) = Len(dl_items)
         /\ \A q \in DOMAIN dl_log : IsProgress(dl_log[q]) => q < p
  /\ (HasDone /\ Len(dl_items) = 1 /\ ~also_preview) =>
       /\ Len(SelectSeq(dl_log, IsWrite)) = 1
       /\ \E f \in fs_files : fs_files = {f} /\ f.path.dir = "json" /\ f.complete

\* a run over two entries with different titles, the first with a preview,
\* ended with done
C5_Witness ==
  /\ HasDone
  /\ Len(dl_items) = 2
  /\ WantsPreview(1)
  /\ dl_items[1].title # dl_items[2].title

(***************************************************************************)
(* C11: the visible subset is the filter of the catalog                    *)
(***************************************************************************)
\* the tag constraint: the sentinel is selected, or the tag is one of the
\* entry's tags
TagConstraint(it) ==
  tag_current = ALL_TAGS \/ \E k \in DOMAIN it.tags : it.tags[k] = tag_current

\* the query constraint for a query text: an empty text passes every entry,
\* any other must occur in the entry's text, letter case ignored
QueryConstraint(it, text) ==
  text = <<>> \/ Contains(Blob(it), Lower(text))

PassesAsTyped(it) == TagConstraint(it) /\ QueryConstraint(it, search)

PassesTrimmed(it) == TagConstraint(it) /\ QueryConstraint(it, Strip(search))

\* C11 as stated: the visible subset is the entries of the catalog, in
\* catalog order, that pass the tag constraint and the query constraint of
\* the text in the search field; with an empty text and the sentinel it is
\* the whole catalog.
C11_VisibleIsFilterAsTyped ==
  /\ filtered = SelectSeq(catalog, PassesAsTyped)
  /\ (search = <<>> /\ tag_current = ALL_TAGS) => filtered = catalog

\* C11 amended: the same, with the query constraint taken on the text of the
\* search field without its leading and trailing whitespace.
C11_VisibleIsFilterTrimmed ==
  /\ filtered = SelectSeq(catalog, PassesTrimmed)
  /\ (search = <<>> /\ tag_current = ALL_TAGS) => filtered = catalog

\* after a second refresh, with a tag chosen and a text with a leading space
\* typed, some entries of the catalog are visible and some are not
C11_Witness ==
  /\ fetch_started >= 2
  /\ tag_current # ALL_TAGS
  /\ search # <<>> /\ Strip(search) # search
  /\ filtered # <<>>
  /\ Len(filtered) < Len(catalog)

(***************************************************************************)
(* C12: the parent directory of a target and the fetch for that target     *)
(***************************************************************************)
\* the parent directory of the JSON target or of the preview target
ParentOf(target) == IF target = "json" THEN "json" ELSE "preview"

\* the call `op` for the target of entry i is at place p of the log
IsCallAt(p, op, i, target) ==
  /\ IsIo(dl_log[p])
  /\ dl_log[p].op = op
  /\ dl_log[p].i = i
  /\ dl_log[p].target = target

\* the fetch at place p of the log failed
IsFailedFetchAt(p) ==
  IsIo(dl_log[p]) /\ dl_log[p].op = "urlopen" /\ ~dl_log[p].ok

\* C12 as stated: the parent directory of a target exists when the fetch for
\* that target is issued, so it exists when the fetch of an entry has failed.
C12_ParentEnsuredBeforeFetch ==
  /\ dl_pc = "urlopen" => ParentOf(dl_target) \in fs_dirs
  /\ \A p \in DOMAIN dl_log :
       IsFailedFetchAt(p) => ParentOf(dl_log[p].target) \in fs_dirs

\* C12 amended: the parent directory of a target is ensured after the fetch
\* for that target has returned and before the target is written; when the
\* fetch of an entry fails, no call has been made to create the parent
\* directory for that target.
C12_ParentEnsuredAfterFetch ==
  /\ dl_pc = "write" => ParentOf(dl_target) \in fs_dirs
  /\ \A p \in DOMAIN dl_log :
       /\ (IsIo(dl_log[p]) /\ dl_log[p].op = "makedirs") =>
            \E q \in 1..(p - 1) :
              /\ IsCallAt(q, "urlopen", dl_log[p].i, dl_log[p].target)
              /\ dl_log[q].ok
       /\ (IsIo(dl_log[p]) /\ dl_log[p].op = "write") =>
            \E q \in 1..(p - 1) :
              /\ IsCallAt(q, "makedirs", dl_log[p].i, dl_log[p].target)
              /\ dl_log[q].ok
       /\ IsFailedFetchAt(p) =>
            \A q \in DOMAIN dl_log :
              ~IsCallAt(q, "makedirs", dl_log[p].i, dl_log[p].target)

\* the JSON file of an entry is written, the fetch of its preview has failed,
\* and there is no preview directory
C12_Witness ==
  /\ \E p \in DOMAIN dl_log :
       IsFailedFetchAt(p) /\ dl_log[p].target # "json"
  /\ \E p \in DOMAIN dl_log : IsWrite(dl_log[p]) /\ dl_log[p].ok
  /\ "json" \in fs_dirs
  /\ "preview" \notin fs_dirs
====
